---------------------------- MODULE Spec2Model ----------------------------
(***************************************************************************)
(* Categorization-question partial-credit grading engine of canvas-tools.  *)
(*                                                                         *)
(* Three scripts implement (parts of) the same pipeline:                   *)
(*   "cg"   categorization_grader.py  (interactive grader, loops)          *)
(*   "qr"   quiz_report.py            (report downloader only)             *)
(*   "cat1" cat1.py                   (one-shot grader)                    *)
(*                                                                         *)
(* Spec       the report retrieval / grading pipeline as a state machine   *)
(* SpecLive   Spec, with every progress fetch returning (liveness)         *)
(* SpecKey    the key builders, applied to bounded question definitions    *)
(* SpecScore  the scorers, applied to bounded keys and placements          *)
(* SpecParse  the answer parsers, applied to bounded answer strings        *)
(* SpecNav    the nested selection loops of categorization_grader.main     *)
(***************************************************************************)
EXTENDS Integers, Sequences, FiniteSets, TLC

VARIABLES
    variant,        \* which script is running
    auto_apply,     \* cat1: the --auto-apply flag
    pc,             \* control position of the script
    fatal,          \* the stage whose failure ended the run ("none" while running)
    round,          \* number of report jobs created so far (cg loops)
    elapsed,        \* time.time() - start inside the poll loop, in seconds
    overdue,        \* poll loop: whether the timeout had passed when the last fetch returned
    fetches,        \* progress GETs issued for the current job (saturates at FetchCap)
    seen,           \* the first MaxSeen workflow_state values read for the current job
    prog,           \* the last decoded progress payload (prog / js)
    meta,           \* the file-metadata response used by the resolver, if any
    listing,        \* qr: the reports-listing response used by the resolver, if any
    lookups,        \* file-metadata GETs issued by the resolver for the current job
    dl_url,         \* the download location handed to the download step
    downloads,      \* calls of the download step for the current job
    data,           \* the downloaded report: one record kind per student
    idx,            \* number of students of data already processed
    outcomes,       \* indices (into data) of the students that were scored, in order
    skipped,        \* indices (into data) of the students recorded as skipped
    approved,       \* the operator's answer to the preview ("unasked" before)
    posted,         \* indices (into data) of the grade updates attempted, in order
    success_count,  \* cg: updates acknowledged
    failed_count,   \* cg: updates refused
    kdef,           \* SpecKey: the question definition handed to the builders
    kout,           \* SpecKey: what each builder returned
    skey,           \* SpecScore: the grading key
    splace,         \* SpecScore: the student's placement (item label -> category label)
    sout,           \* SpecScore: what each scorer returned
    panswer,        \* SpecParse: the segments the answer string is written from
    answer_string,  \* SpecParse: the answer string, a sequence of characters
    pout,           \* SpecParse: the item -> category mapping each parser yields
    nav_pc,         \* SpecNav: the selection loop of cg's main that control is in
    next_action,    \* SpecNav: main's local next_action (Unbound before it is assigned)
    selected_course,     \* SpecNav: index of the course selected last (0: none yet)
    selected_assignment, \* SpecNav: index of the quiz selected last (0: none yet)
    nav_event,      \* SpecNav: what the last step of the selection loops met
    passes          \* SpecNav: passes of the question loop so far

pipeVars == <<variant, auto_apply, pc, fatal, round, elapsed, overdue, fetches, seen, prog,
              meta, listing, lookups, dl_url, downloads, data, idx, outcomes,
              skipped, approved, posted, success_count, failed_count>>
keyVars == <<kdef, kout>>
scoreVars == <<skey, splace, sout>>
parseVars == <<panswer, answer_string, pout>>
navVars == <<nav_pc, next_action, selected_course, selected_assignment, nav_event, passes>>
vars == <<pipeVars, keyVars, scoreVars, parseVars, navVars>>

(***************************************************************************)
(* Bounds of the model                                                     *)
(***************************************************************************)
MaxRounds == 2      \* report jobs per run of cg
MaxSeen == 3        \* statuses remembered per job
FetchCap == 4       \* fetches counts 0..FetchCap; FetchCap reads "FetchCap or more"
ClockJump == 899    \* a slow progress GET takes this many seconds
MaxStudents == 3    \* students per report
NumCats == 2        \* category UUIDs of a question definition
NumItems == 2       \* item UUIDs of a question definition
MaxScoring == 2     \* entries of a scoring specification
MaxPerCategory == 2 \* item UUIDs listed by one entry of the nested shape
NumLabels == 3      \* item labels of a key and of a placement
MaxPoints == 4      \* largest points_possible of a key
MaxSegments == 3    \* segments of an answer string
MaxItemsPerSegment == 2 \* items listed by one segment
NumCourses == 2     \* favorite courses
NumQuizzes == 2     \* New Quizzes of a course
MaxPasses == 4      \* passes of the question loop in one run

(***************************************************************************)
(* Python values                                                           *)
(***************************************************************************)
None == "None"

\* Python truthiness of a str-or-None value.
Truthy(x) == x \notin {None, ""}

\* Python's `a or b`.
Or(a, b) == IF Truthy(a) THEN a ELSE b

Min(a, b) == IF a < b THEN a ELSE b

(***************************************************************************)
(* Configuration                                                           *)
(***************************************************************************)
Variants == {"cg", "qr", "cat1"}

POLL_INTERVAL == 2
REPORT_TIMEOUT == 900
QR_POLL_INTERVAL == 2
TIMEOUT_SEC == 900
interval == 3
timeout_sec == 900

Timeout(v) == CASE v = "cg" -> REPORT_TIMEOUT
                [] v = "qr" -> TIMEOUT_SEC
                [] v = "cat1" -> timeout_sec

Interval(v) == CASE v = "cg" -> POLL_INTERVAL
                 [] v = "qr" -> QR_POLL_INTERVAL
                 [] v = "cat1" -> interval

(***************************************************************************)
(* The remote system's answers                                             *)
(***************************************************************************)
\* POST .../reports: status code, and whether the body names a progress handle.
CreateResponses == [code : {201, 500}, handle : BOOLEAN]

\* workflow_state of the progress resource.
Statuses == {"queued", "running", "completed", "failed"}

\* The `results` object of a progress payload.  At most one identifier field is set.
NoResults == [url |-> None, att_url |-> None, att_download_url |-> None,
              attachment_id |-> None, file_id |-> None, id |-> None]

Results ==
    { r \in [url : {None, "url_a"},
             att_url : {None, "url_b"},
             att_download_url : {None, "url_b2"},
             attachment_id : {None, "7"},
             file_id : {None, "8"},
             id : {None, "9"}] :
        /\ Cardinality({f \in {"attachment_id", "file_id", "id"} : r[f] # None}) <= 1
        /\ ~(r.att_url # None /\ r.att_download_url # None) }

NoProg == [n |-> 0, workflow_state |-> None, results |-> NoResults]

\* GET /api/v1/files/:id
NoMeta == [code |-> 0, url |-> None, download_url |-> None, public_url |-> None]

Metas ==
    { m \in [code : {200, 404},
             url : {None, "", "url_c"},
             download_url : {None, "url_c2"},
             public_url : {None, "url_c3"}] :
        m.code = 404 => (m.url = None /\ m.download_url = None /\ m.public_url = None) }

\* GET .../reports (qr only): status code and the URL of the newest usable report.
NoListing == [code |-> 0, url |-> None]

Listings == { l \in [code : {200, 404, 500}, url : {None, "url_r"}] :
                l.code # 200 => l.url = None }

\* GET of the download location.
DownloadCodes == {200, 500}

\* A student's record in the report, as far as the grading loop distinguishes it:
\* no item-response for the question, an item-response whose answer is the
\* empty string or is missing ("empty"), one whose answer is JSON null ("null"),
\* or an answer.
StudentKinds == {"noresp", "empty", "null", "answered"}

RECURSIVE SeqsUpTo(_, _)
SeqsUpTo(S, n) ==
    IF n = 0 THEN {<<>>}
    ELSE LET shorter == SeqsUpTo(S, n - 1)
         IN shorter \cup { Append(s, x) : s \in {t \in shorter : Len(t) = n - 1}, x \in S }

Reports == SeqsUpTo(StudentKinds, MaxStudents)

(***************************************************************************)
(* create report                                                           *)
(***************************************************************************)
\* categorization_grader.py: "ok" or the fatal exit.
create_student_analysis_report(resp) ==
    IF resp.code \notin {200, 201, 202} THEN "exit"
    ELSE IF ~resp.handle THEN "exit"
    ELSE "ok"

\* quiz_report.py
create_report_or_die(resp) ==
    IF resp.code \notin {200, 201, 202} THEN "exit"
    ELSE IF ~resp.handle THEN "exit"
    ELSE "ok"

\* cat1.py: _post raises on a status >= 400; no progress id raises.
start_student_analysis(resp) ==
    IF resp.code >= 400 THEN "exit"
    ELSE IF ~resp.handle THEN "exit"
    ELSE "ok"

CreateStep(v, resp) ==
    CASE v = "cg" -> create_student_analysis_report(resp)
      [] v = "qr" -> create_report_or_die(resp)
      [] v = "cat1" -> start_student_analysis(resp)

(***************************************************************************)
(* poll: the decision taken after one progress GET.  `el` is                *)
(* time.time() - start when the timeout test is evaluated.                 *)
(***************************************************************************)
\* A poller without the timeout test: it sleeps on every non-terminal status.
cg_poll_progress_no_timeout(code, ws, el) ==
    IF code # 200 THEN "http"
    ELSE IF ws = "completed" THEN "return"
    ELSE IF ws = "failed" THEN "failed"
    ELSE "sleep"

\* A poller that tests the timeout before the status.
cg_poll_progress_timeout_first(code, ws, el) ==
    IF code # 200 THEN "http"
    ELSE IF el > REPORT_TIMEOUT THEN "timeout"
    ELSE IF ws = "completed" THEN "return"
    ELSE IF ws = "failed" THEN "failed"
    ELSE "sleep"

cg_poll_progress(code, ws, el) ==
    IF code # 200 THEN "http"
    ELSE IF ws = "completed" THEN "return"
    ELSE IF ws = "failed" THEN "failed"
    ELSE IF el > REPORT_TIMEOUT THEN "timeout"
    ELSE "sleep"

\* A poller that keeps polling a job that reported "failed".
poll_progress_or_die_retrying(code, ws, el) ==
    IF code # 200 THEN "http"
    ELSE IF ws = "completed" THEN "return"
    ELSE IF el > TIMEOUT_SEC THEN "timeout"
    ELSE "sleep"

poll_progress_or_die(code, ws, el) ==
    IF code # 200 THEN "http"
    ELSE IF ws = "completed" THEN "return"
    ELSE IF ws = "failed" THEN "failed"
    ELSE IF el > TIMEOUT_SEC THEN "timeout"
    ELSE "sleep"

\* cat1.py returns the payload on "failed" as well; run() tests it.
cat1_poll_progress(code, ws, el) ==
    IF code >= 400 THEN "http"
    ELSE IF ws \in {"completed", "failed"} THEN "return"
    ELSE IF el > timeout_sec THEN "timeout"
    ELSE "sleep"

PollStep(v, code, ws, el) ==
    CASE v = "cg" -> cg_poll_progress(code, ws, el)
      [] v = "qr" -> poll_progress_or_die(code, ws, el)
      [] v = "cat1" -> cat1_poll_progress(code, ws, el)

\* A run() that does not test the payload poll_progress returned.
run_report_completed_unchecked(p) == TRUE

\* cat1.run: `if prog.get("workflow_state") != "completed": raise`
run_report_completed(p) == p.workflow_state = "completed"

(***************************************************************************)
(* resolve the download location.  Each resolver yields                    *)
(*   [url, lookups, listed, exit]: the value returned, the number of       *)
(*   file-metadata GETs issued, whether the reports listing was fetched,   *)
(*   and whether the resolver ended the run instead of returning.          *)
(***************************************************************************)
Ret(u, k) == [url |-> u, lookups |-> k, listed |-> FALSE, exit |-> FALSE]
Die(k, l) == [url |-> None, lookups |-> k, listed |-> l, exit |-> TRUE]

resolve_download_url(results, m) ==
    IF Truthy(results.url) THEN Ret(results.url, 0)
    ELSE LET att == Or(results.att_url, results.att_download_url) IN
         IF Truthy(att) THEN Ret(att, 0)
         ELSE LET file_id == Or(results.attachment_id, results.file_id) IN
              IF Truthy(file_id)
              THEN IF m.code = 200
                   THEN Ret(Or(m.url, m.download_url), 1)
                   ELSE Die(1, FALSE)
              ELSE Die(0, FALSE)

\* quiz_report.py: None stands for "nothing usable on the progress object".
try_progress_urls(results, m) ==
    IF Truthy(results.url) THEN Ret(results.url, 0)
    ELSE LET att == Or(results.att_url, results.att_download_url) IN
         IF Truthy(att) THEN Ret(att, 0)
         ELSE LET att_id == Or(results.attachment_id, results.file_id) IN
              IF Truthy(att_id)
              THEN IF m.code = 200
                   THEN Ret(Or(m.url, m.download_url), 1)
                   ELSE Ret(None, 1)
              ELSE Ret(None, 0)

resolve_download_url_or_die(results, m, l) ==
    LET first == try_progress_urls(results, m) IN
    IF Truthy(first.url) THEN first
    ELSE IF l.code = 404 THEN Die(first.lookups, TRUE)
    ELSE IF l.code # 200 THEN Die(first.lookups, TRUE)
    ELSE IF Truthy(l.url)
         THEN [url |-> l.url, lookups |-> first.lookups, listed |-> TRUE, exit |-> FALSE]
         ELSE Die(first.lookups, TRUE)

\* cat1.py: results.url, else attachment_id / id through the Files API, with the
\* ?download=1 address as the last resort.
resolve_report_download(results, m) ==
    IF Truthy(results.url) THEN Ret(results.url, 0)
    ELSE LET attach_id == Or(results.attachment_id, results.id) IN
         IF Truthy(attach_id)
         THEN IF m.code >= 400
              THEN Die(1, FALSE)
              ELSE LET f_url == Or(Or(m.url, m.download_url), m.public_url) IN
                   IF Truthy(f_url) THEN Ret(f_url, 1)
                   ELSE Ret("url_download_1", 1)
         ELSE Die(0, FALSE)

ResolveStep(v, results, m, l) ==
    CASE v = "cg" -> resolve_download_url(results, m)
      [] v = "qr" -> resolve_download_url_or_die(results, m, l)
      [] v = "cat1" -> resolve_report_download(results, m)

(***************************************************************************)
(* download: "ok", or the fatal end of the run.  A location that is None   *)
(* or empty makes the HTTP library raise before any request is sent.       *)
(***************************************************************************)
download_report(url, code) ==
    IF ~Truthy(url) THEN "raise"
    ELSE IF code # 200 THEN "exit"
    ELSE "ok"

download_or_die(url, code) ==
    IF ~Truthy(url) THEN "raise"
    ELSE IF code # 200 THEN "exit"
    ELSE "ok"

\* cat1.py: r.raise_for_status()
cat1_download(url, code) ==
    IF ~Truthy(url) THEN "raise"
    ELSE IF code >= 400 THEN "exit"
    ELSE "ok"

DownloadStep(v, url, code) ==
    CASE v = "cg" -> download_report(url, code)
      [] v = "qr" -> download_or_die(url, code)
      [] v = "cat1" -> cat1_download(url, code)


(***************************************************************************)
(* Question definitions                                                    *)
(***************************************************************************)
Absent == "Absent"

UuidNames(prefix) ==
    IF prefix = "c" THEN <<"c1", "c2", "c3", "c4">> ELSE <<"i1", "i2", "i3", "i4">>

CatIds == { UuidNames("c")[i] : i \in 1..NumCats }
ItemIds == { UuidNames("i")[i] : i \in 1..NumItems }

\* item_body texts as the service sends them.
CatBodies == {"Fruit", "Mineral", ""}
ItemBodies == {"Apple", " Apple ", "Rock", "<b>Rock</b>", ""}

\* str.strip() on the texts above.
strip(b) == IF b = " Apple " THEN "Apple" ELSE b

\* cat1.strip_html: tags removed, then stripped.
strip_html(b) ==
    CASE b = " Apple " -> "Apple"
      [] b = "<b>Rock</b>" -> "Rock"
      [] OTHER -> b

\* An entry of entry.scoring_data.value.  The nested shape carries `id` and
\* scoring_data.value (a list of item UUIDs); the flat shape carries category_id
\* and item_uuid.  A key the entry lacks reads None.
NestedEntries ==
    { [id |-> c, value |-> v, category_id |-> None, item_uuid |-> None] :
        c \in CatIds, v \in SeqsUpTo(ItemIds, MaxPerCategory) }

FlatEntries ==
    { [id |-> None, value |-> <<>>, category_id |-> c, item_uuid |-> i] :
        c \in CatIds, i \in ItemIds }

\* A question definition of interaction type "categorization".  A category may
\* be missing from `categories`; every item is in `distractors`.
Definitions ==
    [categories : [CatIds -> CatBodies \cup {Absent}],
     distractors : [ItemIds -> ItemBodies],
     scoring : SeqsUpTo(NestedEntries, MaxScoring) \cup SeqsUpTo(FlatEntries, MaxScoring)]

(***************************************************************************)
(* Python dict and set helpers                                             *)
(***************************************************************************)
EmptyDict == [k \in {} |-> None]

\* d[k] = v
Put(d, k, v) == [x \in (DOMAIN d) \cup {k} |-> IF x = k THEN v ELSE d[x]]

Range(f) == { f[i] : i \in DOMAIN f }

Raised == [status |-> "raise", correct_map |-> EmptyDict, true_distractors |-> {}]

\* Before the builders have run.
NotBuilt == [status |-> "none", correct_map |-> EmptyDict, true_distractors |-> {}]
NoKout == [cg |-> NotBuilt, cat1 |-> NotBuilt]

Key(cm, td) == [status |-> "key", correct_map |-> cm, true_distractors |-> td]

(***************************************************************************)
(* categorization_grader.CategorizationGrader.parse_quiz_item              *)
(***************************************************************************)
\* The inner loop over one entry's item UUIDs.  acc = [map, raised].
RECURSIVE cg_items(_, _, _, _)
cg_items(def, item_uuids, category_label, acc) ==
    IF item_uuids = <<>> \/ acc.raised THEN acc
    ELSE LET item_uuid == Head(item_uuids)
             item_label == strip(def.distractors[item_uuid])
         IN cg_items(def, Tail(item_uuids), category_label,
                     [acc EXCEPT !.map = Put(acc.map, item_label, category_label)])

\* The loop over scoring_data.  acc = [map, classified, raised]; a missing `id`
\* key or an unknown category UUID is a KeyError.
RECURSIVE cg_scoring(_, _, _)
cg_scoring(def, scoring_data, acc) ==
    IF scoring_data = <<>> \/ acc.raised THEN acc
    ELSE LET category_scoring == Head(scoring_data)
             category_uuid == category_scoring.id
         IN IF category_uuid = None \/ def.categories[category_uuid] = Absent
            THEN [acc EXCEPT !.raised = TRUE]
            ELSE LET category_label == strip(def.categories[category_uuid])
                     item_uuids == category_scoring.value
                     inner == cg_items(def, item_uuids, category_label,
                                       [map |-> acc.map, raised |-> FALSE])
                 IN cg_scoring(def, Tail(scoring_data),
                               [map |-> inner.map,
                                classified |-> acc.classified \cup Range(item_uuids),
                                raised |-> inner.raised])

parse_quiz_item(def) ==
    LET done == cg_scoring(def, def.scoring,
                           [map |-> EmptyDict, classified |-> {}, raised |-> FALSE])
        true_distractor_uuids == ItemIds \ done.classified
    IN IF done.raised THEN Raised
       ELSE Key(done.map, { strip(def.distractors[u]) : u \in true_distractor_uuids })

(***************************************************************************)
(* cat1.build_categorization_key                                           *)
(***************************************************************************)
\* cat_label_by_uuid / item_label_by_uuid: None stands for "not in the dict".
cat_label_by_uuid(def, uuid) ==
    IF def.categories[uuid] = Absent THEN None
    ELSE LET label == strip_html(def.categories[uuid])
         IN IF Truthy(label) THEN label ELSE None

item_label_by_uuid(def, uuid) ==
    LET label == strip_html(def.distractors[uuid])
    IN IF Truthy(label) THEN label ELSE None

\* The loop over scoring.  acc = [map, referenced].
RECURSIVE cat1_scoring(_, _, _)
cat1_scoring(def, scoring, acc) ==
    IF scoring = <<>> THEN acc
    ELSE LET pair == Head(scoring)
             itm_uuid == pair.item_uuid
             cat_uuid == pair.category_id
         IN IF itm_uuid # None /\ cat_uuid # None
            THEN LET item_label == item_label_by_uuid(def, itm_uuid)
                     cat_label == cat_label_by_uuid(def, cat_uuid)
                 IN IF Truthy(item_label) /\ Truthy(cat_label)
                    THEN cat1_scoring(def, Tail(scoring),
                                      [map |-> Put(acc.map, item_label, cat_label),
                                       referenced |-> acc.referenced \cup {itm_uuid}])
                    ELSE cat1_scoring(def, Tail(scoring), acc)
            ELSE cat1_scoring(def, Tail(scoring), acc)

build_categorization_key(def) ==
    LET done == cat1_scoring(def, def.scoring, [map |-> EmptyDict, referenced |-> {}])
        true_distractors == { item_label_by_uuid(def, u) :
                                u \in { x \in ItemIds : /\ item_label_by_uuid(def, x) # None
                                                        /\ x \notin done.referenced } }
    IN IF DOMAIN done.map = {} THEN Raised
       ELSE Key(done.map, true_distractors)

(***************************************************************************)
(* The scorers.  A score is the exact rational <<numerator, denominator>>  *)
(* in lowest terms of the value the float expression denotes.              *)
(***************************************************************************)
LabelNames == <<"Apple", "Rock", "Pear", "Salt">>
ItemLabels == { LabelNames[i] : i \in 1..NumLabels }
CategoryLabels == {"Fruit", "Mineral"}
PointValues == {0, 1, MaxPoints}

\* All dicts with keys in K and values in V.
Dicts(K, V) == UNION { [D -> V] : D \in SUBSET K }

Keys == [correct_map : Dicts(ItemLabels, CategoryLabels),
         true_distractors : SUBSET ItemLabels,
         points_possible : PointValues]

\* A parsed answer: cat1's category pattern also matches a blank category.
Placements == Dicts(ItemLabels, CategoryLabels \cup {""})

\* dict.get(k)
Get(d, k) == IF k \in DOMAIN d THEN d[k] ELSE None

RECURSIVE gcd(_, _)
gcd(a, b) == IF b = 0 THEN a ELSE gcd(b, a % b)

Ratio(n, d) ==
    LET g == gcd(IF n < 0 THEN -n ELSE n, d)
    IN <<n \div g, d \div g>>

\* A score that is not clamped at zero.
Max0_unclamped(r) == r

\* max(0.0, r)
Max0(r) == IF r[1] < 0 THEN <<0, 1>> ELSE r

NotScored == [status |-> "none", score |-> <<0, 1>>, correct |-> 0, misclassified |-> 0]
NoSout == [cg |-> NotScored, cat1 |-> NotScored]
Scored(s, c, m) == [status |-> "scored", score |-> s, correct |-> c, misclassified |-> m]

\* The loop over question.correct_answers.items().  acc = [correct, misclassified].
RECURSIVE cg_classified(_, _, _, _)
cg_classified(question, student_placements, items, acc) ==
    IF items = {} THEN acc
    ELSE LET item_label == CHOOSE x \in items : TRUE
             correct_category == question.correct_map[item_label]
             student_category == Get(student_placements, item_label)
             next == IF student_category = correct_category
                     THEN [acc EXCEPT !.correct = @ + 1]
                     ELSE IF student_category # None
                          THEN [acc EXCEPT !.misclassified = @ + 1]
                          ELSE acc
         IN cg_classified(question, student_placements, items \ {item_label}, next)

\* A distractor loop that penalises every placed label.
RECURSIVE placed_labels_penalized(_, _, _)
placed_labels_penalized(true_distractors, placements, acc) ==
    [acc EXCEPT !.misclassified = @ + Cardinality(DOMAIN placements)]

\* The loop over the true distractors (the same in both scorers).
RECURSIVE placed_distractors(_, _, _)
placed_distractors(true_distractors, placements, acc) ==
    IF true_distractors = {} THEN acc
    ELSE LET d == CHOOSE x \in true_distractors : TRUE
         IN placed_distractors(true_distractors \ {d}, placements,
                               IF d \in DOMAIN placements
                               THEN [acc EXCEPT !.misclassified = @ + 1]
                               ELSE acc)

grade_student(question, student_placements) ==
    LET counted == cg_classified(question, student_placements,
                                 DOMAIN question.correct_map,
                                 [correct |-> 0, misclassified |-> 0])
        done == placed_distractors(question.true_distractors, student_placements, counted)
        total_items == Cardinality(DOMAIN question.correct_map)
    IN IF total_items = 0 \/ question.points_possible = 0
       THEN Scored(<<0, 1>>, 0, 0)
       ELSE Scored(Max0(Ratio((2 * done.correct - done.misclassified)
                                  * question.points_possible,
                              2 * total_items)),
                   done.correct, done.misclassified)

\* A loop over should_items that penalises an item the student did not place.
RECURSIVE cat1_classified_penalising(_, _, _, _)
cat1_classified_penalising(key, student_item_to_cat, should_items, acc) ==
    IF should_items = {} THEN acc
    ELSE LET it_label == CHOOSE x \in should_items : TRUE
             chosen == Get(student_item_to_cat, it_label)
             next == IF ~Truthy(chosen) THEN [acc EXCEPT !.misclassified = @ + 1]
                     ELSE IF chosen = key.correct_map[it_label]
                          THEN [acc EXCEPT !.correct = @ + 1]
                          ELSE [acc EXCEPT !.misclassified = @ + 1]
         IN cat1_classified_penalising(key, student_item_to_cat,
                                       should_items \ {it_label}, next)

\* The loop over should_items.  acc = [correct, misclassified].
RECURSIVE cat1_classified(_, _, _, _)
cat1_classified(key, student_item_to_cat, should_items, acc) ==
    IF should_items = {} THEN acc
    ELSE LET it_label == CHOOSE x \in should_items : TRUE
             chosen == Get(student_item_to_cat, it_label)
             next == IF ~Truthy(chosen) THEN acc
                     ELSE IF chosen = key.correct_map[it_label]
                          THEN [acc EXCEPT !.correct = @ + 1]
                          ELSE [acc EXCEPT !.misclassified = @ + 1]
         IN cat1_classified(key, student_item_to_cat, should_items \ {it_label}, next)

grade_student_entry(student_item_to_cat, key) ==
    LET should_items == DOMAIN key.correct_map
        counted == cat1_classified(key, student_item_to_cat, should_items,
                                   [correct |-> 0, misclassified |-> 0])
        done == placed_distractors(key.true_distractors, student_item_to_cat, counted)
        total == IF Cardinality(should_items) < 1 THEN 1 ELSE Cardinality(should_items)
    IN Scored(Max0(Ratio((2 * done.correct - done.misclassified) * key.points_possible,
                         2 * total)),
              done.correct, done.misclassified)

(***************************************************************************)
(* The answer parsers.  A string is a sequence of one-character strings.   *)
(***************************************************************************)
\* The characters \w matches, among those the answer strings are written in.
WordChars == {"A", "B", "R", "F", "M", "j", "m", "n", "x", "y"}

Max(a, b) == IF a > b THEN a ELSE b

\* The first index >= i that holds no blank (Len(s) + 1 if none): \s*
RECURSIVE SkipSpaces(_, _)
SkipSpaces(s, i) == IF i <= Len(s) /\ s[i] = " " THEN SkipSpaces(s, i + 1) ELSE i

\* The first index >= i that holds no word character: \w*
RECURSIVE SkipWord(_, _)
SkipWord(s, i) == IF i <= Len(s) /\ s[i] \in WordChars THEN SkipWord(s, i + 1) ELSE i

\* The first index >= i that holds ch, 0 if there is none.
RECURSIVE Find(_, _, _)
Find(s, i, ch) ==
    IF i > Len(s) THEN 0 ELSE IF s[i] = ch THEN i ELSE Find(s, i + 1, ch)

\* The last index <= i that holds no blank, 0 if there is none.
RECURSIVE LastNonSpace(_, _)
LastNonSpace(s, i) ==
    IF i < 1 THEN 0 ELSE IF s[i] # " " THEN i ELSE LastNonSpace(s, i - 1)

\* str.strip()
Strip(s) ==
    LET a == SkipSpaces(s, 1)
        b == LastNonSpace(s, Len(s))
    IN IF a > b THEN <<>> ELSE SubSeq(s, a, b)

\* re.sub(r"<[^>]+>", "", s): a tag is "<", at least one character, the next ">".
RECURSIVE RemoveTags(_, _, _)
RemoveTags(s, i, acc) ==
    IF i > Len(s) THEN acc
    ELSE LET close == Find(s, i + 1, ">") IN
         IF s[i] = "<" /\ close >= i + 2
         THEN RemoveTags(s, close + 1, acc)
         ELSE RemoveTags(s, i + 1, Append(acc, s[i]))

\* cat1.strip_html on a string of characters.
StripHtml(s) == Strip(RemoveTags(s, 1, <<>>))

\* str.split(sep)
RECURSIVE Split(_, _, _, _, _)
Split(s, sep, i, buf, out) ==
    IF i > Len(s) THEN Append(out, buf)
    ELSE IF s[i] = sep THEN Split(s, sep, i + 1, <<>>, Append(out, buf))
    ELSE Split(s, sep, i + 1, Append(buf, s[i]), out)

NoMatch == [ok |-> FALSE, end |-> 0, group1 |-> <<>>, group2 |-> <<>>]

\* category_pattern  (\w+(?:\([^)]*\))?)\s*=>\s*\[([^\]]*)\]  tried at index i.
\* No shorter \w+ can succeed, since a word character is neither a blank nor
\* "="; [^\]]* ends at the first "]".
category_pattern(s, i) ==
    LET w == SkipWord(s, i)
        paren == IF w <= Len(s) /\ s[w] = "(" THEN Find(s, w + 1, ")") ELSE 0
        j == IF paren # 0 THEN paren + 1 ELSE w
        k == SkipSpaces(s, j)
        l == SkipSpaces(s, k + 2)
        r == Find(s, l + 1, "]")
    IN IF /\ w > i
          /\ k + 1 <= Len(s) /\ s[k] = "=" /\ s[k + 1] = ">"
          /\ l <= Len(s) /\ s[l] = "["
          /\ r # 0
       THEN [ok |-> TRUE, end |-> r + 1,
             group1 |-> SubSeq(s, i, j - 1), group2 |-> SubSeq(s, l + 1, r - 1)]
       ELSE NoMatch

\* re.findall: the matches from left to right, each search starting where the
\* previous match ended.
RECURSIVE findall(_, _, _)
findall(s, i, acc) ==
    IF i > Len(s) THEN acc
    ELSE LET m == category_pattern(s, i) IN
         IF m.ok THEN findall(s, m.end, Append(acc, m))
         ELSE findall(s, i + 1, acc)

\* `for item in items: placements[item] = category`
RECURSIVE cg_place(_, _, _)
cg_place(items, category, placements) ==
    IF items = <<>> THEN placements
    ELSE LET item == Strip(Head(items)) IN
         cg_place(Tail(items), category,
                  IF item # <<>> THEN Put(placements, item, category) ELSE placements)

RECURSIVE cg_matches(_, _)
cg_matches(matches, placements) ==
    IF matches = <<>> THEN placements
    ELSE LET m == Head(matches) IN
         cg_matches(Tail(matches),
                    cg_place(Split(m.group2, ",", 1, <<>>, <<>>), m.group1, placements))

parse_student_answer(s) == cg_matches(findall(s, 1, <<>>), EmptyDict)

\* cat1.split_top_level
RECURSIVE split_top_level(_, _, _, _, _, _)
split_top_level(s, sep, i, depth, buf, out) ==
    IF i > Len(s) THEN (IF buf # <<>> THEN Append(out, buf) ELSE out)
    ELSE LET ch == s[i]
             d == IF ch = "[" THEN depth + 1
                  ELSE IF ch = "]" THEN Max(0, depth - 1)
                  ELSE depth
         IN IF ch = sep /\ d = 0
            THEN split_top_level(s, sep, i + 1, d, <<>>, Append(out, buf))
            ELSE split_top_level(s, sep, i + 1, d, Append(buf, ch), out)

\* ANSWER_RE.match  \s*([^=]+?)\s*=>\s*\[([^\]]*)\]\s*  on one part.  Nothing
\* before "=>" can hold "=", so "=>" is matched at the first "="; the lazy group
\* starts after the leading blanks (at the last one if there is nothing else)
\* and ends at the last character before the blanks that precede "=>".
ANSWER_RE(part) ==
    LET k == Find(part, 1, "=")
        a == SkipSpaces(part, 1)
        b == LastNonSpace(part, k - 1)
        l == SkipSpaces(part, k + 2)
        r == Find(part, l + 1, "]")
    IN IF /\ k > 1
          /\ k + 1 <= Len(part) /\ part[k + 1] = ">"
          /\ l <= Len(part) /\ part[l] = "["
          /\ r # 0
       THEN [ok |-> TRUE, end |-> SkipSpaces(part, r + 1),
             group1 |-> IF a >= k THEN SubSeq(part, k - 1, k - 1) ELSE SubSeq(part, a, b),
             group2 |-> SubSeq(part, l + 1, r - 1)]
       ELSE NoMatch

\* `[strip_html(x) for x in split_top_level(items_csv, ",") if strip_html(x)]`
RECURSIVE cat1_items(_, _)
cat1_items(xs, acc) ==
    IF xs = <<>> THEN acc
    ELSE cat1_items(Tail(xs),
                    IF StripHtml(Head(xs)) # <<>> THEN Append(acc, StripHtml(Head(xs)))
                    ELSE acc)

\* mapping.setdefault(cat, []).extend(items); the mapping is the sequence of
\* its (category, items) entries in insertion order.
setdefault_extend(mapping, cat, items) ==
    IF \E n \in DOMAIN mapping : mapping[n].cat = cat
    THEN [n \in DOMAIN mapping |->
            IF mapping[n].cat = cat
            THEN [cat |-> cat, items |-> mapping[n].items \o items]
            ELSE mapping[n]]
    ELSE Append(mapping, [cat |-> cat, items |-> items])

RECURSIVE cat1_parts(_, _)
cat1_parts(parts, mapping) ==
    IF parts = <<>> THEN mapping
    ELSE LET m == ANSWER_RE(Head(parts)) IN
         IF ~m.ok THEN cat1_parts(Tail(parts), mapping)
         ELSE LET cat == StripHtml(m.group1)
                  items_csv == Strip(m.group2)
                  items == cat1_items(split_top_level(items_csv, ",", 1, 0, <<>>, <<>>),
                                      <<>>)
              IN cat1_parts(Tail(parts), setdefault_extend(mapping, cat, items))

parse_answer_mapping(answer_str) ==
    IF answer_str = <<>> THEN <<>>
    ELSE cat1_parts(split_top_level(answer_str, ",", 1, 0, <<>>, <<>>), <<>>)

\* grade_student_entry: the placements flattened to item -> category.
RECURSIVE flatten_items(_, _, _)
flatten_items(items, cat, acc) ==
    IF items = <<>> THEN acc
    ELSE flatten_items(Tail(items), cat, Put(acc, Head(items), cat))

RECURSIVE flatten(_, _)
flatten(placements, acc) ==
    IF placements = <<>> THEN acc
    ELSE flatten(Tail(placements),
                 flatten_items(Head(placements).items, Head(placements).cat, acc))

student_item_to_cat(answer_str) == flatten(parse_answer_mapping(answer_str), EmptyDict)

NotParsed == [status |-> "none", placements |-> EmptyDict]
NoPout == [cg |-> NotParsed, cat1 |-> NotParsed]
Parsed(d) == [status |-> "parsed", placements |-> d]

(***************************************************************************)
(* The answer strings: up to MaxSegments segments, written with or without *)
(* blanks.  A segment is well formed ("ok") or lacks a part of the shape.  *)
(***************************************************************************)
CatTexts == { <<"A">>, <<"B">>, <<"R", " ", "F">> }
ItemTexts == { <<"x">>, <<"y">>, <<"n", "[", "x", ",", "y", "]">> }
ItemLists == SeqsUpTo(ItemTexts, MaxItemsPerSegment) \ {<<>>}

OkSegments == [kind : {"ok"}, cat : CatTexts, items : ItemLists]

\* A word without "=>", a list that is not closed, a list that is not opened,
\* and "=" for "=>".
BadSegments == [kind : {"junk", "noclose", "noopen", "noarrow"},
                cat : {<<"M">>}, items : {<< <<"m">> >>}]

Answers == [segs : SeqsUpTo(OkSegments \cup BadSegments, MaxSegments),
            sep : {<<",">>, <<",", " ">>},
            sp : {<<>>, <<" ">>}]

RECURSIVE Join(_, _)
Join(parts, sep) ==
    IF parts = <<>> THEN <<>>
    ELSE IF Len(parts) = 1 THEN parts[1]
    ELSE parts[1] \o sep \o Join(Tail(parts), sep)

RenderSegment(g, sp) ==
    CASE g.kind = "ok" ->
           g.cat \o sp \o <<"=", ">">> \o sp \o <<"[">> \o Join(g.items, <<",">>) \o <<"]">>
      [] g.kind = "junk" -> <<"j">>
      [] g.kind = "noclose" ->
           g.cat \o <<"=", ">", "[">> \o Join(g.items, <<",">>)
      [] g.kind = "noopen" ->
           g.cat \o <<"=", ">">> \o Join(g.items, <<",">>) \o <<"]">>
      [] g.kind = "noarrow" ->
           g.cat \o <<"=", "[">> \o Join(g.items, <<",">>) \o <<"]">>

Render(a) == Join([n \in DOMAIN a.segs |-> RenderSegment(a.segs[n], a.sp)], a.sep)

(***************************************************************************)
(* The job state of the data model (ReportJob.state), read off the script: *)
(* the job is Requested until the submission is acknowledged, Polling      *)
(* until a fetch reads a terminal status or the timeout test fires.        *)
(***************************************************************************)
JobState ==
    IF pc = "create" \/ fatal = "create" THEN "Requested"
    ELSE IF fatal = "timeout" THEN "TimedOut"
    ELSE IF prog.workflow_state = "failed" THEN "Failed"
    ELSE IF prog.workflow_state = "completed" THEN "Completed"
    ELSE "Polling"

(***************************************************************************)
(* Pipeline                                                                *)
(***************************************************************************)
IdleKey == kdef = None /\ kout = NoKout

IdleScore == skey = None /\ splace = None /\ sout = NoSout

IdleParse == panswer = None /\ answer_string = <<>> /\ pout = NoPout

\* A local variable of main() that no statement has assigned yet.
Unbound == 0

IdleNav ==
    /\ nav_pc = "idle"
    /\ next_action = Unbound
    /\ selected_course = 0
    /\ selected_assignment = 0
    /\ nav_event = "none"
    /\ passes = 0

Init ==
    /\ variant \in Variants
    /\ auto_apply \in (IF variant = "cat1" THEN BOOLEAN ELSE {FALSE})
    /\ pc = "create"
    /\ fatal = "none"
    /\ round = 0
    /\ elapsed = 0
    /\ overdue = FALSE
    /\ fetches = 0
    /\ seen = <<>>
    /\ prog = NoProg
    /\ meta = NoMeta
    /\ listing = NoListing
    /\ lookups = 0
    /\ dl_url = None
    /\ downloads = 0
    /\ data = <<>>
    /\ idx = 0
    /\ outcomes = <<>>
    /\ skipped = <<>>
    /\ approved = "unasked"
    /\ posted = <<>>
    /\ success_count = 0
    /\ failed_count = 0
    /\ IdleKey
    /\ IdleScore
    /\ IdleParse
    /\ IdleNav

jobVars == <<elapsed, overdue, fetches, seen, prog, meta, listing, lookups, dl_url, downloads>>
gradeVars == <<data, idx, outcomes, skipped, approved, posted, success_count, failed_count>>

\* Submit the generation request for the selected question.  In cg every pass of
\* the question loop starts here again, with fresh locals.
Create ==
    /\ pc = "create"
    /\ round < MaxRounds
    /\ \E resp \in CreateResponses :
         /\ round' = round + 1
         /\ elapsed' = 0
         /\ overdue' = FALSE
         /\ fetches' = 0
         /\ seen' = <<>>
         /\ prog' = NoProg
         /\ meta' = NoMeta
         /\ listing' = NoListing
         /\ lookups' = 0
         /\ dl_url' = None
         /\ downloads' = 0
         /\ data' = <<>>
         /\ idx' = 0
         /\ outcomes' = <<>>
         /\ skipped' = <<>>
         /\ approved' = "unasked"
         /\ posted' = <<>>
         /\ success_count' = 0
         /\ failed_count' = 0
         /\ IF CreateStep(variant, resp) = "ok"
            THEN pc' = "poll" /\ fatal' = fatal
            ELSE pc' = "exit" /\ fatal' = "create"
    /\ UNCHANGED <<variant, auto_apply, keyVars, scoreVars, parseVars, navVars>>

\* A poll loop that takes its start time anew on every pass.
time_sleep_restarting(v, now) == 0

\* time.sleep(POLL_INTERVAL): the clock reading when the next pass begins.
time_sleep(v, now) == now + Interval(v)

\* One pass of the `while True` of the poller: GET, status test, timeout test, sleep.
Poll ==
    /\ pc = "poll"
    /\ \E code \in {200, 500}, d \in {0, ClockJump} :
       \E ws \in (IF code = 200 THEN Statuses ELSE {"queued"}) :
         LET now == elapsed + d
             step == PollStep(variant, code, ws, now)
         IN /\ fetches' = Min(fetches + 1, FetchCap)
            /\ overdue' = (now > Timeout(variant))
            /\ seen' = IF code = 200 /\ Len(seen) < MaxSeen THEN Append(seen, ws) ELSE seen
            /\ prog' = IF code = 200
                       THEN [n |-> fetches', workflow_state |-> ws, results |-> NoResults]
                       ELSE prog
            /\ CASE step = "return" ->
                      /\ pc' = IF variant = "cat1" THEN "check" ELSE "resolve"
                      /\ fatal' = fatal
                      /\ elapsed' = 0
                 [] step = "sleep" ->
                      /\ pc' = "poll"
                      /\ fatal' = fatal
                      /\ elapsed' = time_sleep(variant, now)
                 [] OTHER ->
                      /\ pc' = "exit"
                      /\ fatal' = step
                      /\ elapsed' = IF step = "timeout" THEN now ELSE 0
    /\ UNCHANGED <<variant, auto_apply, round, meta, listing, lookups, dl_url, downloads,
                   gradeVars, keyVars, scoreVars, parseVars, navVars>>

\* cat1.run: the payload poll_progress returned must read "completed".
CheckCompleted ==
    /\ pc = "check"
    /\ IF run_report_completed(prog)
       THEN pc' = "resolve" /\ fatal' = fatal
       ELSE pc' = "exit" /\ fatal' = "failed"
    /\ UNCHANGED <<variant, auto_apply, round, jobVars, gradeVars, keyVars, scoreVars, parseVars, navVars>>

\* Resolve the download location from the payload the poller returned.  The
\* `results` object of that payload is drawn here, where it is first read.
\* The poll loop's clock is not read again: overdue is cleared like elapsed.
Resolve ==
    /\ pc = "resolve"
    /\ \E res \in Results, m \in Metas, l \in Listings :
         LET r == ResolveStep(variant, res, m, l) IN
         /\ (r.lookups = 0) => m = [NoMeta EXCEPT !.code = 404]
         /\ (~r.listed) => l = [NoListing EXCEPT !.code = 404]
         /\ prog' = [prog EXCEPT !.results = res]
         /\ meta' = IF r.lookups > 0 THEN m ELSE NoMeta
         /\ listing' = IF r.listed THEN l ELSE NoListing
         /\ lookups' = lookups + r.lookups
         /\ dl_url' = r.url
         /\ IF r.exit
            THEN pc' = "exit" /\ fatal' = "resolve"
            ELSE pc' = "download" /\ fatal' = fatal
    /\ overdue' = FALSE
    /\ UNCHANGED <<variant, auto_apply, round, elapsed, fetches, seen, downloads,
                   gradeVars, keyVars, scoreVars, parseVars, navVars>>

\* Download the report from the resolved location.  After a successful download
\* the payload, the poll history and the location are not read again.
Download ==
    /\ pc = "download"
    /\ \E code \in DownloadCodes, rep \in Reports :
         LET step == DownloadStep(variant, dl_url, code) IN
         /\ (step # "ok") => (rep = <<>> /\ (step = "raise" => code = 200))
         /\ downloads' = downloads + 1
         /\ IF step = "ok"
            THEN /\ pc' = CASE variant = "qr" -> "done"
                            [] variant = "cg" -> "locate"
                            [] variant = "cat1" -> "grade"
                 /\ fatal' = fatal
                 /\ data' = rep
                 /\ fetches' = 0
                 /\ seen' = <<>>
                 /\ prog' = [NoProg EXCEPT !.workflow_state = prog.workflow_state]
                 /\ meta' = NoMeta
                 /\ listing' = NoListing
                 /\ lookups' = 0
                 /\ dl_url' = None
            ELSE /\ pc' = "exit"
                 /\ fatal' = "download"
                 /\ UNCHANGED <<data, fetches, seen, prog, meta, listing, lookups, dl_url>>
    /\ UNCHANGED <<variant, auto_apply, round, elapsed, overdue, idx, outcomes, skipped, approved,
                   posted, success_count, failed_count, keyVars, scoreVars, parseVars, navVars>>

(***************************************************************************)
(* Grading loop, preview and grade updates                                 *)
(***************************************************************************)
\* categorization_grader.main: the item id of the selected question is read off
\* the first student's responses.
question_item_id_found(d) == d # <<>> /\ d[1] # "noresp"

\* categorization_grader.main, for one student: "skipped" or "graded".  Without
\* a matching item-response the student is skipped; answer_string is '' for an
\* empty or missing answer, which parses to no placement and is graded; it is
\* None for a null answer, on which re.findall raises and the student is
\* skipped.
cg_grade_one(kind) ==
    IF kind = "noresp" THEN "skipped"
    ELSE IF kind = "null" THEN "skipped"
    ELSE "graded"

\* cat1: grade_student_entry returns None without a matching item-response, and
\* run() keeps only the outcomes; `target.get("answer") or ""` turns a null or
\* missing answer into '', which parses to no placement and is graded.
cat1_grade_one(kind) == IF kind = "noresp" THEN "dropped" ELSE "graded"

GradeOne(v, kind) == IF v = "cg" THEN cg_grade_one(kind) ELSE cat1_grade_one(kind)

\* A list that takes each new element in front.
append_front(list, x) == <<x>> \o list

\* grades.append(...), skipped.append(...), outcomes.append(oc)
append(list, x) == Append(list, x)

LocateItem ==
    /\ pc = "locate"
    /\ pc' = IF question_item_id_found(data) THEN "grade" ELSE "create"
    /\ UNCHANGED <<variant, auto_apply, fatal, round, jobVars, gradeVars, keyVars, scoreVars, parseVars, navVars>>

\* One pass of the loop over the report's students.
GradeNext ==
    /\ pc = "grade"
    /\ idx < Len(data)
    /\ LET r == GradeOne(variant, data[idx + 1]) IN
         /\ outcomes' = IF r = "graded" THEN append(outcomes, idx + 1) ELSE outcomes
         /\ skipped' = IF r = "skipped" THEN append(skipped, idx + 1) ELSE skipped
    /\ idx' = idx + 1
    /\ UNCHANGED <<variant, auto_apply, pc, fatal, round, jobVars, data, approved, posted,
                   success_count, failed_count, keyVars, scoreVars, parseVars, navVars>>

\* What the operator may type at the prompt (cg asks again after anything but
\* these four; cat1 takes any line).
Replies == {"y", "yes", "n", "no"}

\* A prompt that takes every answer for a yes.
get_yes_no_any(response) == TRUE

\* categorization_grader.get_yes_no, on the answer that ends its loop.
get_yes_no(response) == response \in {"yes", "y"}

\* cat1.run: `if not auto_apply: ans = input(...); if ans != "y": return`
cat1_apply(auto, ans) == auto \/ ans = "y"

Apply(v, auto, ans) == IF v = "cg" THEN get_yes_no(ans) ELSE cat1_apply(auto, ans)

\* The loop is over: nothing to grade ends the pass, otherwise the batch is
\* previewed and the operator is asked (cat1 with --auto-apply does not ask).
Preview ==
    /\ pc = "grade"
    /\ idx = Len(data)
    /\ IF outcomes = <<>>
       THEN /\ pc' = IF variant = "cg" THEN "create" ELSE "done"
            /\ approved' = approved
       ELSE \E ans \in (IF variant = "cat1" /\ auto_apply THEN {"auto"} ELSE Replies) :
              /\ approved' = ans
              /\ pc' = IF Apply(variant, auto_apply, ans)
                       THEN "update"
                       ELSE (IF variant = "cg" THEN "create" ELSE "done")
    /\ UNCHANGED <<variant, auto_apply, fatal, round, jobVars, data, idx, outcomes, skipped,
                   posted, success_count, failed_count, keyVars, scoreVars, parseVars, navVars>>

\* The remote system's answers to a grade update.
UpdateCodes == {200, 500}

\* CanvasAPIClient.update_grade: True on 200, False otherwise.
update_grade(code) == code = 200

\* cat1.update_grade: _put raises on a status >= 400.
cat1_update_grade(code) == code < 400

UpdateStep(v, code) == IF v = "cg" THEN update_grade(code) ELSE cat1_update_grade(code)

\* An update loop that gives up at the first update that fails.
next_update_until_failure(success) == IF success THEN "update" ELSE "done"

\* `for grade in grades:` / `for oc in outcomes:` after one update: the branch
\* of a failed update (cg: failed_count += 1; cat1: except Exception) falls
\* through to the next pass like the branch of a successful one.
next_update(success) == "update"

\* One pass of the grade-update loop: a PUT for the next outcome.
UpdateNext ==
    /\ pc = "update"
    /\ Len(posted) < Len(outcomes)
    /\ \E code \in UpdateCodes :
         LET success == UpdateStep(variant, code) IN
         /\ posted' = Append(posted, outcomes[Len(posted) + 1])
         /\ success_count' = IF variant = "cg" /\ success THEN success_count + 1
                             ELSE success_count
         /\ failed_count' = IF variant = "cg" /\ ~success THEN failed_count + 1
                            ELSE failed_count
         /\ pc' = next_update(success)
    /\ UNCHANGED <<variant, auto_apply, fatal, round, jobVars, data, idx, outcomes,
                   skipped, approved, keyVars, scoreVars, parseVars, navVars>>

\* The batch is done: cat1 ends; cg asks what to do next (1-3 lead to another
\* question sooner or later, 4 exits).
Finish ==
    /\ pc = "update"
    /\ Len(posted) = Len(outcomes)
    /\ \E choice \in 1..4 :
         pc' = IF variant = "cg" /\ choice # 4 THEN "create" ELSE "done"
    /\ UNCHANGED <<variant, auto_apply, fatal, round, jobVars, gradeVars, keyVars, scoreVars, parseVars, navVars>>

Next ==
    \/ Create
    \/ Poll
    \/ CheckCompleted
    \/ Resolve
    \/ Download
    \/ LocateItem
    \/ GradeNext
    \/ Preview
    \/ UpdateNext
    \/ Finish

Spec == Init /\ [][Next]_vars

\* Every progress GET returns: a poller that can take its next pass takes it.
SpecLive == Spec /\ WF_vars(Poll)


(***************************************************************************)
(* Claims about the report retrieval (checked under Spec)                  *)
(***************************************************************************)
\* The resolver has run for the current job (it returned or ended the run).
Resolved == pc = "download" \/ fatal \in {"resolve", "download"}

\* C1: in every poller the download-location resolution is reached only after a
\* progress fetch that read "completed"; after a fetch that read "failed", or
\* after the timeout fired, the run is over and neither the resolver nor the
\* download step runs.
C1_ResolveOnlyAfterCompleted ==
    /\ [](((pc \in {"resolve", "download"}) \/ Resolved \/ lookups > 0 \/ downloads > 0
            \/ dl_url # None)
          => prog.workflow_state = "completed")
    /\ []((fatal \in {"failed", "timeout"})
          => (pc = "exit" /\ lookups = 0 /\ downloads = 0 /\ dl_url = None))
    /\ [][(prog.workflow_state = "failed" \/ fatal = "timeout")
          => (pc' \in {"check", "exit"} /\ lookups' = 0 /\ downloads' = 0)]_vars

C1_Witness ==
    /\ pc = "download"
    /\ Truthy(dl_url)
    /\ seen = <<"queued", "running", "completed">>

\* The failed and the timed-out ends of a run are reached too.
C1_FailedReached == fatal = "failed" /\ variant = "cat1"
C1_TimeoutReached == fatal = "timeout" /\ variant = "cg"

\* C2: the status sequence [queued, running, completed] makes the poller return
\* the third payload after exactly three fetches; a poller that read a
\* non-terminal status with the timeout exceeded raises the timeout instead of
\* sleeping, and no fetch follows the timeout.
C2_PollTermination ==
    /\ [](seen = <<"queued", "running", "completed">>
          => /\ fetches = 3
             /\ prog.n = 3
             /\ prog.workflow_state = "completed"
             /\ pc \in {"check", "resolve", "download", "exit"}
             /\ fatal \notin {"timeout", "failed", "http"})
    /\ [](pc = "poll" => elapsed <= Timeout(variant) + Interval(variant))
    /\ [](fatal = "timeout"
          => /\ pc = "exit"
             /\ elapsed > Timeout(variant)
             /\ prog.workflow_state \in {"queued", "running"})
    /\ [][fatal = "timeout" => (fetches' = fetches /\ pc' = "exit")]_vars

C2_Witness ==
    /\ seen = <<"queued", "running", "completed">>
    /\ pc \in {"check", "resolve"}
    /\ prog.n = 3

C2_StuckWitness ==
    /\ seen = <<"running", "running", "running">>
    /\ fatal = "timeout"
    /\ fetches = FetchCap

\* C3: the job state moves only forward along
\* Requested -> Polling -> {Completed, Failed, TimedOut}, and the three final
\* states are absorbing.  A job is the one created by the current pass.
JobId == IF pc = "create" THEN round + 1 ELSE round

Rank(st) == CASE st = "Requested" -> 0
              [] st = "Polling" -> 1
              [] OTHER -> 2

C3_ForwardOnly ==
    [][JobId' = JobId
       => /\ Rank(JobState') >= Rank(JobState)
          /\ (Rank(JobState) = 2 => JobState' = JobState)]_vars

C3_Witness == JobState = "TimedOut" /\ round = 2

\* C4: every resolver tries (a) results.url, (b) the nested attachment's URL,
\* (c) the identifier through the Files API, in this order, returns the first
\* that yields a URL, and issues the metadata GET only when (a) and (b) yield
\* nothing.
YieldA == prog.results.url
YieldB == Or(prog.results.att_url, prog.results.att_download_url)
IdOf(v) == IF v = "cat1"
           THEN Or(prog.results.attachment_id, prog.results.id)
           ELSE Or(prog.results.attachment_id, prog.results.file_id)
YieldC(v) == IF v = "cat1"
             THEN Or(Or(meta.url, meta.download_url), meta.public_url)
             ELSE Or(meta.url, meta.download_url)

ThreeStepOrder(v) ==
    /\ Truthy(YieldA) => (dl_url = YieldA /\ lookups = 0)
    /\ (~Truthy(YieldA) /\ Truthy(YieldB)) => (dl_url = YieldB /\ lookups = 0)
    /\ (~Truthy(YieldA) /\ ~Truthy(YieldB) /\ Truthy(IdOf(v)))
          => (lookups = 1 /\ (Truthy(YieldC(v)) => dl_url = YieldC(v)))
    /\ lookups > 0 => (~Truthy(YieldA) /\ ~Truthy(YieldB) /\ Truthy(IdOf(v)))

C4_ResolutionOrder == Resolved => ThreeStepOrder(variant)

StageFailed ==
    \/ fatal \in {"create", "failed", "timeout", "resolve"}
    \/ prog.workflow_state = "failed"
    \/ (Resolved /\ ~Truthy(dl_url))

C6_FatalAborts ==
    /\ [](StageFailed
          => /\ pc \in {"check", "exit"}
             /\ downloads = 0
             /\ data = <<>>
             /\ outcomes = <<>>
             /\ posted = <<>>)
    /\ []((fatal \in {"create", "failed", "timeout"} \/ prog.workflow_state = "failed")
          => lookups = 0)
    /\ [][fatal # "none" => UNCHANGED vars]_vars


(***************************************************************************)
(* SpecKey: both key builders applied to a question definition             *)
(***************************************************************************)
IdlePipe ==
    /\ variant = "cg"
    /\ auto_apply = FALSE
    /\ pc = "idle"
    /\ fatal = "none"
    /\ round = 0
    /\ elapsed = 0
    /\ overdue = FALSE
    /\ fetches = 0
    /\ seen = <<>>
    /\ prog = NoProg
    /\ meta = NoMeta
    /\ listing = NoListing
    /\ lookups = 0
    /\ dl_url = None
    /\ downloads = 0
    /\ data = <<>>
    /\ idx = 0
    /\ outcomes = <<>>
    /\ skipped = <<>>
    /\ approved = "unasked"
    /\ posted = <<>>
    /\ success_count = 0
    /\ failed_count = 0

InitKey ==
    /\ IdlePipe
    /\ IdleScore
    /\ IdleParse
    /\ IdleNav
    /\ kdef \in Definitions
    /\ kout = NoKout

BuildKeys ==
    /\ kout.cg.status = "none"
    /\ kout' = [cg |-> parse_quiz_item(kdef), cat1 |-> build_categorization_key(kdef)]
    /\ UNCHANGED <<kdef, pipeVars, scoreVars, parseVars, navVars>>

NextKey == BuildKeys

SpecKey == InitKey /\ [][NextKey]_vars

Builders == {"cg", "cat1"}

\* The (item label, category label) pairs of a correct map.
Entries(d) == { <<k, d[k]>> : k \in DOMAIN d }

\* C7: a key that a builder returns has a non-empty correct map; a definition
\* that yields no (item, category) pair makes the builder fail.
C7_NonEmptyKey ==
    \A b \in Builders :
        kout[b].status = "key" => DOMAIN kout[b].correct_map # {}


\* The item and category labels as each builder resolves them.
LabelOf(b, body) == IF b = "cg" THEN strip(body) ELSE strip_html(body)

\* The (category UUID, item UUID) pairs a scoring specification lists.
ListedPairs(def) ==
    LET nested == UNION { { <<e.id, e.value[j]>> : j \in DOMAIN e.value } :
                          e \in { x \in Range(def.scoring) : x.id # None } }
        flat == { <<e.category_id, e.item_uuid>> :
                    e \in { x \in Range(def.scoring) : x.category_id # None } }
    IN nested \cup flat

PerCategoryShape(def) == \A e \in Range(def.scoring) : e.id # None

\* Every listed UUID resolves to a non-empty label, no item is listed twice and
\* no two listed items share a label.
WellFormed(def) ==
    LET pairs == ListedPairs(def) IN
    /\ pairs # {}
    /\ \A e \in Range(def.scoring) : e.id # None => e.value # <<>>
    /\ \A p \in pairs :
         /\ def.categories[p[1]] \notin {Absent, ""}
         /\ def.distractors[p[2]] # ""
    /\ \A p, q \in pairs :
         p # q => /\ p[2] # q[2]
                  /\ strip_html(def.distractors[p[2]]) # strip_html(def.distractors[q[2]])
    /\ \A e \in Range(def.scoring) :
         \A j, k \in DOMAIN e.value : j # k => e.value[j] # e.value[k]

ExpectedMap(b, def) ==
    { <<LabelOf(b, def.distractors[p[2]]), LabelOf(b, def.categories[p[1]])>> :
        p \in ListedPairs(def) }

\* C8: for a definition whose scoring specification lists, per category id, the
\* item ids that belong in it, each builder returns a correct map holding one
\* entry item label -> category label per listed pair and nothing else.
C8_CorrectMap ==
    (kout.cg.status # "none" /\ PerCategoryShape(kdef) /\ WellFormed(kdef))
        => \A b \in Builders :
             /\ kout[b].status = "key"
             /\ Entries(kout[b].correct_map) = ExpectedMap(b, kdef)

\* The example of the specification: categories {c1: Fruit}, item pool
\* {i1: Apple, i2: Rock}, scoring [{c1, [i1]}].
SpecExample ==
    /\ kdef.categories = [c \in CatIds |-> IF c = "c1" THEN "Fruit" ELSE Absent]
    /\ kdef.distractors = [i \in ItemIds |-> IF i = "i1" THEN "Apple" ELSE "Rock"]
    /\ kdef.scoring = << [id |-> "c1", value |-> <<"i1">>,
                          category_id |-> None, item_uuid |-> None] >>

C8_Example ==
    (kout.cg.status # "none" /\ SpecExample)
        => \A b \in Builders :
             /\ kout[b].status = "key"
             /\ Entries(kout[b].correct_map) = {<<"Apple", "Fruit">>}
             /\ kout[b].true_distractors = {"Rock"}

\* The item UUIDs a scoring specification references.
Referenced(def) == { p[2] : p \in ListedPairs(def) }

\* C9: in every key a builder returns, true_distractors is the set of labels of
\* the item-pool UUIDs the scoring specification never references (cat1 keeps no
\* item without a label); an item the specification references is not
\* reported, even when its category cannot be resolved.
C9_TrueDistractors ==
    \A b \in Builders :
        kout[b].status = "key"
            => kout[b].true_distractors =
                 { LabelOf(b, kdef.distractors[u]) : u \in ItemIds \ Referenced(kdef) }
                 \ (IF b = "cat1" THEN {""} ELSE {})


(***************************************************************************)
(* SpecScore: both scorers applied to a key and a placement                *)
(***************************************************************************)
InitScore ==
    /\ IdlePipe
    /\ IdleKey
    /\ IdleParse
    /\ IdleNav
    /\ skey \in Keys
    /\ splace \in Placements
    /\ sout = NoSout

ScoreBoth ==
    /\ sout.cg.status = "none"
    /\ sout' = [cg |-> grade_student(skey, splace),
                cat1 |-> grade_student_entry(splace, skey)]
    /\ UNCHANGED <<skey, splace, pipeVars, keyVars, parseVars, navVars>>

NextScore == ScoreBoth

SpecScore == InitScore /\ [][NextScore]_vars

Scorers == {"cg", "cat1"}

\* Correct-map items placed under their correct category.
PlacedRight ==
    { i \in DOMAIN skey.correct_map :
        i \in DOMAIN splace /\ splace[i] = skey.correct_map[i] }

\* Correct-map items placed under a different category.
PlacedWrong ==
    { i \in DOMAIN skey.correct_map :
        i \in DOMAIN splace /\ splace[i] # skey.correct_map[i] }

\* True distractors that appear in the placement.
PlacedDistractors == skey.true_distractors \cap DOMAIN splace

FormulaScore(c, m) ==
    LET n == Cardinality(DOMAIN skey.correct_map)
    IN Max0(Ratio((2 * c - m) * skey.points_possible, 2 * (IF n < 1 THEN 1 ELSE n)))

\* C10: for every key and placement each scorer returns correct = the number
\* of correct-map items placed under their correct category, misclassified =
\* the number of correct-map items placed under a different category plus the
\* number of true distractors in the placement, and score =
\* max(0, (correct - 0.5 * misclassified) / max(1, |correct_map|) * points_possible).
C10_ScoreFormula ==
    \A s \in Scorers :
        sout[s].status = "scored"
            => /\ sout[s].correct = Cardinality(PlacedRight)
               /\ sout[s].misclassified =
                      Cardinality(PlacedWrong) + Cardinality(PlacedDistractors)
               /\ sout[s].score = FormulaScore(sout[s].correct, sout[s].misclassified)

\* The worked example: three classifiable items, two placed correctly, one
\* wrongly, no distractor touched, 4 points: correct 2, misclassified 1, 2.0.
C10_Example ==
    (/\ sout.cg.status = "scored"
     /\ Cardinality(DOMAIN skey.correct_map) = 3
     /\ Cardinality(PlacedRight) = 2
     /\ Cardinality(PlacedWrong) = 1
     /\ \A i \in PlacedWrong : splace[i] # ""
     /\ PlacedDistractors = {}
     /\ skey.points_possible = 4)
        => \A s \in Scorers :
             /\ sout[s].correct = 2
             /\ sout[s].misclassified = 1
             /\ sout[s].score = <<2, 1>>


\* r1 <= r2 for two scores.
Leq(r1, r2) == r1[1] * r2[2] <= r2[1] * r1[2]

\* What a scorer returns for a key and a placement.
ScoreOf(s, key, p) ==
    IF s = "cg" THEN grade_student(key, p) ELSE grade_student_entry(p, key)

\* The placement without the entry of item i.
Without(p, i) == [x \in (DOMAIN p) \ {i} |-> p[x]]

\* C11: for every key with non-negative points_possible and every placement
\* the returned score lies in [0, points_possible].
C11_ScoreRange ==
    \A s \in Scorers :
        sout[s].status = "scored"
            => /\ Leq(<<0, 1>>, sout[s].score)
               /\ Leq(sout[s].score, <<skey.points_possible, 1>>)

\* A placement whose raw score is negative, in a key worth points.
C11_Witness ==
    /\ sout.cg.status = "scored"
    /\ skey.points_possible > 0
    /\ DOMAIN skey.correct_map # {}
    /\ sout.cg.misclassified > 2 * sout.cg.correct
    /\ sout.cat1.misclassified > 2 * sout.cat1.correct
    /\ sout.cg.score = <<0, 1>>

\* The placement puts every correct-map item under its correct category and
\* holds no true distractor.
PerfectPlacement ==
    /\ DOMAIN skey.correct_map # {}
    /\ \A i \in DOMAIN skey.correct_map :
         i \in DOMAIN splace /\ splace[i] = skey.correct_map[i]
    /\ PlacedDistractors = {}

\* C12: for every key (points_possible >= 0, 0 included) a perfect placement
\* yields misclassified = 0, correct = |correct_map| and score = points_possible,
\* in both scorers.
C12_PerfectPlacement ==
    \A s \in Scorers :
        (sout[s].status = "scored" /\ PerfectPlacement)
            => /\ sout[s].misclassified = 0
               /\ sout[s].correct = Cardinality(DOMAIN skey.correct_map)
               /\ sout[s].score = <<skey.points_possible, 1>>

\* C13: a correct-map item that is absent from the placement earns no credit
\* and no penalty (every credit and every penalty stems from a placed label),
\* so taking a wrongly placed item out of the placement never lowers the score,
\* and the empty placement yields correct = 0, misclassified = 0, score = 0.
C13_UnplacedIsNeutral ==
    \A s \in Scorers :
        sout[s].status = "scored"
            => /\ sout[s].correct
                    <= Cardinality(DOMAIN skey.correct_map \cap DOMAIN splace)
               /\ sout[s].misclassified
                    <= Cardinality(DOMAIN skey.correct_map \cap DOMAIN splace)
                       + Cardinality(PlacedDistractors)
               /\ \A i \in PlacedWrong :
                    Leq(sout[s].score, ScoreOf(s, skey, Without(splace, i)).score)
               /\ splace = EmptyDict
                    => /\ sout[s].correct = 0
                       /\ sout[s].misclassified = 0
                       /\ sout[s].score = <<0, 1>>

\* A scored placement with an unplaced item, a wrongly placed item whose
\* removal raises the score, and points gained.
C13_Witness ==
    /\ sout.cat1.status = "scored"
    /\ (DOMAIN skey.correct_map) \ (DOMAIN splace) # {}
    /\ \E i \in PlacedWrong :
         /\ ~Leq(ScoreOf("cat1", skey, Without(splace, i)).score, sout.cat1.score)
         /\ ~Leq(ScoreOf("cg", skey, Without(splace, i)).score, sout.cg.score)
    /\ sout.cat1.score # <<0, 1>>

\* C14: for every key, placement and true distractor d not yet placed (and not
\* itself a label of the correct map), adding d under any category raises
\* misclassified by exactly 1, leaves correct unchanged, and the counts do not
\* depend on the category chosen.
C14_DistractorPenalty ==
    \A s \in Scorers :
        sout[s].status = "scored"
            => \A d \in skey.true_distractors
                          \ (DOMAIN splace \cup DOMAIN skey.correct_map) :
                 \A c \in CategoryLabels \cup {""} :
                   LET with == ScoreOf(s, skey, Put(splace, d, c)) IN
                   /\ with.misclassified = sout[s].misclassified + 1
                   /\ with.correct = sout[s].correct

\* C15: when the counts of a placement (no entry under a blank category) are
\* misclassified > 2 * correct the returned score is exactly 0, and the
\* returned counts are the true counts.
C15_Clamping ==
    \A s \in Scorers :
        (/\ sout[s].status = "scored"
         /\ \A i \in DOMAIN splace : splace[i] # ""
         /\ Cardinality(PlacedWrong) + Cardinality(PlacedDistractors)
               > 2 * Cardinality(PlacedRight))
            => /\ sout[s].score = <<0, 1>>
               /\ sout[s].correct = Cardinality(PlacedRight)
               /\ sout[s].misclassified =
                      Cardinality(PlacedWrong) + Cardinality(PlacedDistractors)

\* The labels the key does not know.
ForeignLabels == ItemLabels \ (DOMAIN skey.correct_map \cup skey.true_distractors)

\* C16: placement entries whose item label is neither a key of the correct map
\* nor a true distractor are ignored: adding or removing such an entry leaves
\* correct, misclassified and score unchanged.
C16_ForeignLabelsIgnored ==
    \A s \in Scorers :
        sout[s].status = "scored"
            => /\ \A i \in ForeignLabels \cap DOMAIN splace :
                    ScoreOf(s, skey, Without(splace, i)) = sout[s]
               /\ \A i \in ForeignLabels \ DOMAIN splace :
                    \A c \in CategoryLabels \cup {""} :
                      ScoreOf(s, skey, Put(splace, i, c)) = sout[s]

\* A scored placement that holds a label foreign to the key next to a
\* correctly placed item, with another foreign label left to add.
C16_Witness ==
    /\ sout.cg.status = "scored"
    /\ ForeignLabels \cap DOMAIN splace # {}
    /\ sout.cg.correct > 0
    /\ sout.cat1.correct > 0
    /\ skey.points_possible > 0


(***************************************************************************)
(* SpecParse: both parsers applied to an answer string                     *)
(***************************************************************************)
InitParse ==
    /\ IdlePipe
    /\ IdleKey
    /\ IdleScore
    /\ IdleNav
    /\ panswer \in Answers
    /\ answer_string = Render(panswer)
    /\ pout = NoPout

ParseBoth ==
    /\ pout.cg.status = "none"
    /\ pout' = [cg |-> Parsed(parse_student_answer(answer_string)),
                cat1 |-> Parsed(student_item_to_cat(answer_string))]
    /\ UNCHANGED <<panswer, answer_string, pipeVars, keyVars, scoreVars, navVars>>

NextParse == ParseBoth

SpecParse == InitParse /\ [][NextParse]_vars

Parsers == {"cg", "cat1"}

\* The well-formed segments of the answer.
OkSegs == { n \in DOMAIN panswer.segs : panswer.segs[n].kind = "ok" }

AllOk == OkSegs = DOMAIN panswer.segs

\* The (segment, position) places where the well-formed segments list an item.
ListedAt == { <<n, j>> \in OkSegs \X (1..MaxItemsPerSegment) :
                j \in DOMAIN panswer.segs[n].items }

ItemAt(l) == panswer.segs[l[1]].items[l[2]]

ListedItems == { ItemAt(l) : l \in ListedAt }

\* No item holds a bracket.
NoNested == \A it \in ListedItems : Find(it, 1, "[") = 0

\* No item is listed twice.
NoRepeats == \A l1, l2 \in ListedAt : l1 # l2 => ItemAt(l1) # ItemAt(l2)

\* Every category label is one word.
OneWordCats == \A n \in OkSegs : Find(panswer.segs[n].cat, 1, " ") = 0

\* The last well-formed segment that lists the item.
LastSegmentOf(it) ==
    CHOOSE n \in OkSegs :
        /\ \E l \in ListedAt : l[1] = n /\ ItemAt(l) = it
        /\ \A l \in ListedAt : ItemAt(l) = it => l[1] <= n

\* Every listed item under the category of the last well-formed segment that
\* lists it.
ExpectedPlacements == [it \in ListedItems |-> panswer.segs[LastSegmentOf(it)].cat]

\* C17: for a well-formed answer string (no bracket inside an item, no item
\* listed twice) each parser maps every listed item label to the complete
\* category label of its segment, the label of several words included.
C17_WholeCategoryLabel ==
    (pout.cg.status = "parsed" /\ AllOk /\ NoNested /\ NoRepeats)
        => \A p \in Parsers : pout[p].placements = ExpectedPlacements

\* C18: an item label with a comma inside nested brackets is kept as one item,
\* and the other items of its segment and of later segments are still parsed
\* with their categories.
C18_DepthAwareSplit ==
    (pout.cg.status = "parsed" /\ AllOk /\ ~NoNested /\ NoRepeats /\ OneWordCats)
        => \A p \in Parsers : pout[p].placements = ExpectedPlacements

\* C19: an item label listed by more than one segment is mapped to the category
\* of the last segment, in string order, that lists it.
C19_LastSegmentWins ==
    (pout.cg.status = "parsed" /\ AllOk /\ NoNested /\ ~NoRepeats /\ OneWordCats)
        => \A p \in Parsers : pout[p].placements = ExpectedPlacements

\* C20: a segment that does not match the shape "label => [list]" is dropped,
\* every well-formed segment before and after it is still parsed under its
\* category, and no text of the malformed segment shows up in the result.
C20_MalformedDropped ==
    (pout.cg.status = "parsed" /\ ~AllOk /\ NoNested /\ NoRepeats /\ OneWordCats)
        => \A p \in Parsers : pout[p].placements = ExpectedPlacements


(***************************************************************************)
(* Claims about the grading loop and the grade updates (checked under Spec) *)
(***************************************************************************)
\* C21: every student of the report without an item-response for the question
\* that the grading loop has passed is in the skipped list shown to the
\* operator.
C21_MissingResponseSkipped ==
    \A i \in 1..idx : data[i] = "noresp" => i \in Range(skipped)

\* C22: every student with an empty, missing or null answer that the grading
\* loop has passed is in the skipped list, has no grade outcome and gets no
\* grade update.
C22_EmptyAnswerSkipped ==
    \A i \in 1..idx :
        data[i] \in {"empty", "null"}
            => /\ i \in Range(skipped)
               /\ i \notin Range(outcomes)
               /\ i \notin Range(posted)

\* The script is done with the report it downloaded: the item id was looked
\* for and the loop over the students, if it was entered, has ended.
PassOver ==
    /\ data # <<>>
    /\ pc # "locate"
    /\ pc = "grade" => idx = Len(data)

\* What the pass made of student i.
Result(i) ==
    IF i \in Range(outcomes) THEN "graded"
    ELSE IF i \in Range(skipped) THEN "skipped"
    ELSE "dropped"

C24_ReportOrder ==
    /\ [](/\ \A k \in 1..(Len(outcomes) - 1) : outcomes[k] < outcomes[k + 1]
          /\ Range(outcomes) = { i \in 1..idx : GradeOne(variant, data[i]) = "graded" }
          /\ Range(outcomes) \cap Range(skipped) = {})
    /\ [][idx' # idx
          => \/ idx' = 0
             \/ /\ idx' = idx + 1
                /\ outcomes' \in {outcomes, Append(outcomes, idx')}]_vars

C24_Witness ==
    /\ data = <<"answered", "noresp", "answered">>
    /\ idx = 3
    /\ outcomes = <<1, 3>>

(***************************************************************************)
(* Claims about the poll loop (checked under SpecLive and Spec)            *)
(***************************************************************************)
\* C25: when every progress fetch returns and the clock advances by the poll
\* interval on each pass, a poll loop that was entered ends after finitely
\* many fetches: the job is Completed, Failed or TimedOut (an HTTP error, which
\* the assumption excludes, ends the loop as well).
C25_PollLoopTerminates ==
    (pc = "poll") ~> (JobState \in {"Completed", "Failed", "TimedOut"} \/ fatal = "http")

\* The loop times out on a job that never leaves "queued".
C25_Witness ==
    /\ JobState = "TimedOut"
    /\ seen = <<"queued", "queued", "queued">>
    /\ fetches = FetchCap
    /\ variant = "qr"

\* C26: in each pass of the poll loop the status test comes before the timeout
\* test: the loop is never left without a fetch, a fetch that reads "completed"
\* returns the payload also when the timeout has passed, and the timeout is
\* raised only after a fetch that read a non-terminal status.
C26_StatusBeforeTimeout ==
    /\ []((pc \in {"check", "resolve"} \/ fatal \in {"http", "failed", "timeout"})
          => fetches >= 1)
    /\ [](fatal = "timeout"
          => (overdue /\ prog.workflow_state \in {"queued", "running"}))
    /\ [][(pc = "poll" /\ prog'.workflow_state = "completed")
          => (pc' \in {"check", "resolve"} /\ fatal' = "none")]_vars

\* A fetch read "completed" after the timeout had passed, and the poller
\* returned the payload.
C26_Witness ==
    /\ pc \in {"check", "resolve"}
    /\ prog.workflow_state = "completed"
    /\ overdue
    /\ fatal = "none"

\* The operator confirmed the previewed batch of the current pass.
Confirmed ==
    \/ variant = "cg" /\ approved \in {"yes", "y"}
    \/ variant = "cat1" /\ (auto_apply \/ approved = "y")

\* C27: a grade update is sent only for a batch the operator confirmed (cat1:
\* or under --auto-apply), and after a negative answer no update is sent for
\* that batch.
C27_NoUpdateWithoutConsent ==
    /\ (pc = "update" \/ posted # <<>> \/ success_count + failed_count > 0) => Confirmed
    /\ approved \in {"n", "no"} => (posted = <<>> /\ pc \in {"create", "done"})

\* The operator declined a batch that held outcomes.
C27_Witness ==
    /\ approved = "no"
    /\ Len(outcomes) = 2
    /\ posted = <<>>
    /\ pc \in {"create", "done"}

\* The update loop of a confirmed batch has ended.
UpdatesOver == Confirmed /\ pc \in {"create", "done"}

\* C28: the update loop makes one attempt per graded student, in outcome
\* order, whether the attempts before it failed or not; when it ends every
\* graded student had an attempt, and in cg success_count + failed_count is
\* the number of graded students.
C28_FailedUpdateDoesNotStop ==
    /\ Len(posted) <= Len(outcomes)
    /\ \A k \in 1..Len(posted) : posted[k] = outcomes[k]
    /\ variant = "cg" => success_count + failed_count = Len(posted)
    /\ UpdatesOver => posted = outcomes

\* Two of three updates failed and the third student still had an attempt.
C28_Witness ==
    /\ variant = "cg"
    /\ UpdatesOver
    /\ posted = <<1, 2, 3>>
    /\ failed_count = 2
    /\ success_count = 1

(***************************************************************************)
(* A further claim about the key builders (checked under SpecKey)          *)
(***************************************************************************)
\* C29: in every key a builder returns no label is both a key of the correct
\* map and a true distractor, also when two item UUIDs carry the same label.
C29_KeyDisjoint ==
    \A b \in Builders :
        kout[b].status = "key"
            => DOMAIN kout[b].correct_map \cap kout[b].true_distractors = {}

(***************************************************************************)
(* SpecNav: the nested selection loops of categorization_grader.main       *)
(***************************************************************************)
InitNav ==
    /\ IdlePipe
    /\ IdleKey
    /\ IdleScore
    /\ IdleParse
    /\ nav_pc = "course"
    /\ next_action = Unbound
    /\ selected_course = 0
    /\ selected_assignment = 0
    /\ nav_event = "none"
    /\ passes = 0

\* The statement after the question loop, reached by a `break` out of it:
\* `if next_action == 3: break`.  Reading the local before any assignment
\* raises UnboundLocalError, which ends the program.
after_question_loop(na) ==
    IF na = Unbound THEN "crashed"
    ELSE IF na = 3 THEN "course"
    ELSE "quiz"

\* One pass of the course loop up to the entry of the assignment loop.
SelectCourse ==
    /\ nav_pc = "course"
    /\ \E courses \in 0..NumCourses :
         IF courses = 0
         THEN /\ nav_pc' = "exit"
              /\ nav_event' = "no_courses"
              /\ selected_course' = selected_course
         ELSE \E course_idx \in 1..courses :
                /\ nav_pc' = "quiz"
                /\ nav_event' = "course"
                /\ selected_course' = course_idx
    /\ UNCHANGED <<next_action, selected_assignment, passes,
                   pipeVars, keyVars, scoreVars, parseVars>>

\* One pass of the assignment loop up to the entry of the question loop.
SelectQuiz ==
    /\ nav_pc = "quiz"
    /\ \E assignments \in 0..NumQuizzes :
         IF assignments = 0
         THEN /\ nav_pc' = "course"
              /\ nav_event' = "no_quizzes"
              /\ selected_assignment' = selected_assignment
         ELSE \E assignment_idx \in 1..assignments :
                /\ nav_pc' = "question"
                /\ nav_event' = "quiz"
                /\ selected_assignment' = assignment_idx
    /\ UNCHANGED <<next_action, selected_course, passes,
                   pipeVars, keyVars, scoreVars, parseVars>>

\* One pass of the question loop.  The quiz has categorization questions or
\* not; with questions the pass ends with a `continue` (no item id, nobody to
\* grade, batch declined), with a fatal exit of the report retrieval, or with
\* the update loop and the operator's choice of the next action.
QuestionPass ==
    /\ nav_pc = "question"
    /\ passes < MaxPasses
    /\ passes' = passes + 1
    /\ \E questions \in BOOLEAN, end \in {"continue", "fatal", "updated"}, choice \in 1..4 :
         IF ~questions
         THEN /\ end = "continue" /\ choice = 1
              /\ nav_event' = "no_questions"
              /\ next_action' = next_action
              /\ nav_pc' = after_question_loop(next_action)
         ELSE CASE end = "continue" ->
                     /\ choice = 1
                     /\ nav_event' = "continue"
                     /\ next_action' = next_action
                     /\ nav_pc' = "question"
                [] end = "fatal" ->
                     /\ choice = 1
                     /\ nav_event' = "fatal"
                     /\ next_action' = next_action
                     /\ nav_pc' = "exit"
                [] end = "updated" ->
                     /\ nav_event' = "chose"
                     /\ next_action' = choice
                     /\ nav_pc' = CASE choice = 1 -> "question"
                                     [] choice = 4 -> "exit"
                                     [] OTHER -> after_question_loop(choice)
    /\ UNCHANGED <<selected_course, selected_assignment,
                   pipeVars, keyVars, scoreVars, parseVars>>

NextNav ==
    \/ SelectCourse
    \/ SelectQuiz
    \/ QuestionPass

SpecNav == InitNav /\ [][NextNav]_vars

\* C30: a quiz without categorization questions sends control back to the quiz
\* selection of the same course, whatever was chosen or not chosen before; the
\* question loop hands control to the course selection only in the pass in
\* which the operator chose option 3.
C30_NoQuestionsBackToQuiz ==
    [][/\ (nav_pc = "question" /\ nav_event' = "no_questions")
            => (nav_pc' = "quiz" /\ selected_course' = selected_course)
       /\ (nav_pc = "question" /\ nav_pc' = "course")
            => (nav_event' = "chose" /\ next_action' = 3)]_vars
=============================================================================
